---- MODULE Spec2Model ----
(***************************************************************************)
(* Pitch-contour pipeline of detech-sound: main.py (10 marks) and main2.py *)
(* (20 marks, reference scan, gap filling, time reset at the 11th mark).   *)
(*                                                                         *)
(* Frequencies are integers in milli-Hz (1 Hz = 1000), so that a value    *)
(* with three decimals and its rounding to two decimals are different     *)
(* numbers.  Times are kept exact as the numerator of a fraction whose     *)
(* denominator is 2 * sr (twice a sample index).                           *)
(***************************************************************************)
EXTENDS Integers, Sequences, FiniteSets, TLC

VARIABLES pc, args, ret, files, index, all_results, output

vars == <<pc, args, ret, files, index, all_results, output>>

---------------------------------------------------------------------------
(* Program constants *)

MAX_VALID_HZ == 350
MIN_VALID_HZ == 75
TIME_MARKS == 20
TIME_MARKS_main == 10
SUB_WINDOWS == 5
PRE_SCAN_MARKS == 300

(* n Hz in the model's unit *)
Hz(n) == n * 1000

---------------------------------------------------------------------------
(* Optional Hz values: Python's None against a float *)

Undetermined == [det |-> FALSE, hz |-> 0]
Concrete(v) == [det |-> TRUE, hz |-> v]

---------------------------------------------------------------------------
(* Python / numpy helpers *)

Min2(a, b) == IF a < b THEN a ELSE b
Max2(a, b) == IF a > b THEN a ELSE b
Abs(x) == IF x < 0 THEN 0 - x ELSE x

(* s[lo:hi] on a 1-based TLA+ sequence, lo and hi 0-based and already      *)
(* non-negative; Python clips both to len(s).                              *)
PySlice(s, lo, hi) ==
    LET l == Min2(lo, Len(s))
        h == Min2(hi, Len(s))
    IN  IF h <= l THEN <<>> ELSE SubSeq(s, l + 1, h)

(* s[-k:] : the last k elements, the whole list when it is shorter *)
PyTail(s, k) == PySlice(s, Max2(Len(s) - k, 0), Len(s))

RECURSIVE SumSeq(_)
SumSeq(s) == IF Len(s) = 0 THEN 0 ELSE Head(s) + SumSeq(Tail(s))

RECURSIVE Insert(_, _)
Insert(x, s) ==
    IF Len(s) = 0 THEN <<x>>
    ELSE IF x <= Head(s) THEN <<x>> \o s
    ELSE <<Head(s)>> \o Insert(x, Tail(s))

RECURSIVE Sorted(_)
Sorted(s) == IF Len(s) = 0 THEN <<>> ELSE Insert(Head(s), Sorted(Tail(s)))

(* np.median of a non-empty sequence: the middle element of the sorted    *)
(* values, or the mean of the two middle ones.  The frequencies fed to it  *)
(* are multiples of 4 milli-Hz, so the halving is exact.                   *)
Median(s) ==
    LET t == Sorted(s)
        n == Len(t)
    IN  IF n % 2 = 1 THEN t[(n + 1) \div 2]
        ELSE (t[n \div 2] + t[n \div 2 + 1]) \div 2

(* round(sum / n, 2) for sum >= 0 in milli-Hz: the nearest multiple of     *)
(* 10 milli-Hz.  On a decimal tie Python rounds the binary float, which    *)
(* lies on one side or the other; the tie goes to the even hundredth here  *)
(* and the properties below accept either side.                            *)
Round2(sum, n) ==
    LET q == sum \div (10 * n)
        r == sum - q * 10 * n
    IN  IF 2 * r < 10 * n THEN 10 * q
        ELSE IF 2 * r > 10 * n THEN 10 * (q + 1)
        ELSE IF q % 2 = 0 THEN 10 * q ELSE 10 * (q + 1)

---------------------------------------------------------------------------
(* Segmenter: the partition rule of the three loops *)

(* mutant: the last span does not absorb the remainder *)
Span_NoRemainder(i, total_len, count) ==
    LET segment_len == total_len \div count
    IN  [start |-> i * segment_len, end |-> (i + 1) * segment_len]

Span(i, total_len, count) ==
    LET segment_len == total_len \div count
    IN  [start |-> i * segment_len,
         end   |-> IF i < count - 1 THEN (i + 1) * segment_len ELSE total_len]

segment_boundaries(total_len, count) ==
    [k \in 1..count |-> Span(k - 1, total_len, count)]

---------------------------------------------------------------------------
(* The pitch primitive (librosa.yin) is external: one call either raises   *)
(* or returns a track of frames, each NaN (not det) or a frequency.        *)

Raises == [raised |-> TRUE, f0 |-> <<>>]
Track(f) == [raised |-> FALSE, f0 |-> f]

(* What the primitive does on a span of len samples on which it would      *)
(* answer `answer`.  The source does not test for an empty span; that a    *)
(* span without samples yields no frequency is the primitive's contract    *)
(* (design section 4.1), taken here as a failed call.                      *)
yin(len, answer) == IF len = 0 THEN Raises ELSE answer

IsDet(x) == x.det

detect_pitch(out) ==
    IF out.raised THEN Undetermined
    ELSE LET f0 == SelectSeq(out.f0, IsDet)
         IN  IF Len(f0) = 0 THEN Undetermined
             ELSE Concrete(Median([k \in 1..Len(f0) |-> f0[k].hz]))

(* mutant: a sub-window result is kept without the ceiling test *)
RECURSIVE SubWindowScan_NoCeiling(_, _, _)
SubWindowScan_NoCeiling(segment, i, valid_hz_values) ==
    IF i >= SUB_WINDOWS THEN valid_hz_values
    ELSE LET sub == Span(i, segment.len, SUB_WINDOWS)
             sub_hz == detect_pitch(yin(sub.end - sub.start, segment.subs[i + 1]))
         IN  SubWindowScan_NoCeiling(segment, i + 1,
                 IF sub_hz.det THEN Append(valid_hz_values, sub_hz.hz)
                 ELSE valid_hz_values)

(* A segment is known by its length and by what the primitive answers on   *)
(* the whole of it and on each of its SUB_WINDOWS sub-spans.               *)
RECURSIVE SubWindowScan(_, _, _)
SubWindowScan(segment, i, valid_hz_values) ==
    IF i >= SUB_WINDOWS THEN valid_hz_values
    ELSE LET sub == Span(i, segment.len, SUB_WINDOWS)
             sub_hz == detect_pitch(yin(sub.end - sub.start, segment.subs[i + 1]))
         IN  SubWindowScan(segment, i + 1,
                 IF sub_hz.det /\ sub_hz.hz < Hz(MAX_VALID_HZ)
                 THEN Append(valid_hz_values, sub_hz.hz)
                 ELSE valid_hz_values)

robust_pitch_detection(segment) ==
    LET hz == detect_pitch(yin(segment.len, segment.whole))
    IN  IF hz.det /\ hz.hz < Hz(MAX_VALID_HZ) THEN hz
        ELSE LET valid_hz_values == SubWindowScan(segment, 0, <<>>)
             IN  IF Len(valid_hz_values) > 0
                 THEN Concrete(Median(valid_hz_values))
                 ELSE Concrete(Hz(MAX_VALID_HZ))

---------------------------------------------------------------------------
(* Smoother *)

(* mutant: the edge means always divide by 2, the inner ones by 3 *)
smooth_hz_values_FixedDivisor(hz_list) ==
    [k \in 1..Len(hz_list) |->
        LET i == k - 1
        IN  IF i = 0 THEN Round2(SumSeq(PySlice(hz_list, 0, 2)), 2)
            ELSE IF i = Len(hz_list) - 1 THEN Round2(SumSeq(PyTail(hz_list, 2)), 2)
            ELSE Round2(SumSeq(PySlice(hz_list, i - 1, i + 2)), 3)]

smooth_hz_values(hz_list) ==
    [k \in 1..Len(hz_list) |->
        LET i == k - 1
            window == IF i = 0 THEN PySlice(hz_list, 0, 2)
                      ELSE IF i = Len(hz_list) - 1 THEN PyTail(hz_list, 2)
                      ELSE PySlice(hz_list, i - 1, i + 2)
        IN  Round2(SumSeq(window), Len(window))]

---------------------------------------------------------------------------
(* A trimmed waveform y is known by its length, its sample rate and what   *)
(* the primitive answers on each span the pipeline cuts from it:           *)
(*   y.marks[k]  the k-th coarse segment (whole and sub-windows),          *)
(*   y.ref       the reference spans that are voiced, as <<index, yin>>    *)
(*               pairs; on every other reference span the track is empty.  *)

RefYin(y, i) ==
    LET hits == SelectSeq(y.ref, LAMBDA e : e[1] = i)
    IN  IF Len(hits) = 0 THEN Track(<<>>) ELSE hits[1][2]

(* ReferenceScanner.  time is the numerator start + end of the midpoint    *)
(* ((start + end) / 2) / sr over the denominator 2 * sr.  (The trailing    *)
(* \o <<>> only makes TLC build the list once, as a tuple.)                *)
prescan_300_marks(y) ==
    [k \in 1..PRE_SCAN_MARKS |->
        LET sp == Span(k - 1, y.len, PRE_SCAN_MARKS)
        IN  [time |-> sp.start + sp.end,
             hz   |-> detect_pitch(yin(sp.end - sp.start, RefYin(y, k - 1)))]]
    \o <<>>

(* mutant: every concrete point counts as valid *)
IsValidPoint_AnyConcrete(p) == p.hz.det

IsValidPoint(p) == p.hz.det /\ p.hz.hz >= Hz(MIN_VALID_HZ)

(* mutant: the last point whose key is smallest *)
RECURSIVE MinByDistance_Last(_, _, _)
MinByDistance_Last(points, target_time, best) ==
    IF Len(points) = 0 THEN best
    ELSE LET p == Head(points)
         IN  MinByDistance_Last(Tail(points), target_time,
                 IF Abs(p.time - target_time) <= Abs(best.time - target_time)
                 THEN p ELSE best)

(* Python's min(points, key): the first point whose key is smallest *)
RECURSIVE MinByDistance(_, _, _)
MinByDistance(points, target_time, best) ==
    IF Len(points) = 0 THEN best
    ELSE LET p == Head(points)
         IN  MinByDistance(Tail(points), target_time,
                 IF Abs(p.time - target_time) < Abs(best.time - target_time)
                 THEN p ELSE best)

find_nearest_valid_hz(target_time, prescan_data) ==
    LET valid_points == SelectSeq(prescan_data, IsValidPoint)
    IN  IF Len(valid_points) = 0 THEN Hz(MIN_VALID_HZ)
        ELSE MinByDistance(Tail(valid_points), target_time,
                           Head(valid_points)).hz.hz

---------------------------------------------------------------------------
(* PipelineOrchestrator *)

(* round(t, 3) of the time num / (2 * sr) seconds, in milliseconds *)
Round3(num, sr) ==
    LET q == (num * 1000) \div (2 * sr)
        r == num * 1000 - q * 2 * sr
    IN  IF 2 * r < 2 * sr THEN q
        ELSE IF 2 * r > 2 * sr THEN q + 1
        ELSE IF q % 2 = 0 THEN q ELSE q + 1

(* The coarse loop: one robust estimate per mark *)
EstimateMarks(y, count) ==
    [k \in 1..count |->
        LET sp == Span(k - 1, y.len, count)
        IN  robust_pitch_detection(
                [len   |-> sp.end - sp.start,
                 whole |-> y.marks[k].whole,
                 subs  |-> y.marks[k].subs]).hz]

(* main.py: no reference scan, no gap filling, no reset *)
process_audio_file_main(y) ==
    LET bounds == segment_boundaries(y.len, TIME_MARKS_main)
        raw == EstimateMarks(y, TIME_MARKS_main)
        hz_values == smooth_hz_values(raw)
    IN  [raw           |-> raw,
         smoothed      |-> hz_values,
         bounds        |-> bounds,
         relative_time |-> [k \in 1..TIME_MARKS_main |->
                               bounds[k].start + bounds[k].end],
         results       |->
            [k \in 1..TIME_MARKS_main |->
                [sounding          |-> y.name,
                 time_mark         |-> (k - 1) + 1,
                 relative_time_sec |->
                     Round3(bounds[k].start + bounds[k].end, y.sr),
                 hz                |-> hz_values[k]]]]

(* mutant: a mark at the floor is replaced too *)
gap_fill_AtOrBelowFloor(hz_values, i, midpoint_time, prescan_data) ==
    IF hz_values[i + 1] <= Hz(MIN_VALID_HZ)
    THEN LET replacement_hz == find_nearest_valid_hz(midpoint_time, prescan_data)
         IN  [hz_values EXCEPT ![i + 1] = Round2(replacement_hz, 1)]
    ELSE hz_values

(* main2.py, the gap-filling step of one mark *)
gap_fill(hz_values, i, midpoint_time, prescan_data) ==
    IF hz_values[i + 1] < Hz(MIN_VALID_HZ)
    THEN LET replacement_hz == find_nearest_valid_hz(midpoint_time, prescan_data)
         IN  [hz_values EXCEPT ![i + 1] = Round2(replacement_hz, 1)]
    ELSE hz_values

(* mutant: the mark index does not restart *)
time_axis_NoRestart(i, midpoint_time, st) ==
    LET reset_time == IF i = 10 THEN st.prev_end_time ELSE st.reset_time
    IN  IF i < 10
        THEN [reset_time |-> reset_time, relative_time |-> midpoint_time,
              excel_mark |-> i + 1]
        ELSE [reset_time |-> reset_time,
              relative_time |-> midpoint_time - reset_time,
              excel_mark |-> i + 1]

(* mutant: the reset anchor follows the previous mark at every mark *)
time_axis_ResetEveryMark(i, midpoint_time, st) ==
    LET reset_time == IF i >= 10 THEN st.prev_end_time ELSE st.reset_time
    IN  IF i < 10
        THEN [reset_time |-> reset_time, relative_time |-> midpoint_time,
              excel_mark |-> i + 1]
        ELSE [reset_time |-> reset_time,
              relative_time |-> midpoint_time - reset_time,
              excel_mark |-> (i - 10) + 1]

(* main2.py, the time axis of one mark; st carries reset_time and          *)
(* prev_end_time (numerators over 2 * sr)                                  *)
time_axis(i, midpoint_time, st) ==
    LET reset_time == IF i = 10 THEN st.prev_end_time ELSE st.reset_time
    IN  IF i < 10
        THEN [reset_time |-> reset_time, relative_time |-> midpoint_time,
              excel_mark |-> i + 1]
        ELSE [reset_time |-> reset_time,
              relative_time |-> midpoint_time - reset_time,
              excel_mark |-> (i - 10) + 1]

(* main2.py, the emitting loop *)
RECURSIVE EmitLoop(_, _, _, _, _)
EmitLoop(y, i, bounds, prescan_data, st) ==
    IF i >= TIME_MARKS THEN st
    ELSE LET start == bounds[i + 1].start
             end == bounds[i + 1].end
             midpoint_time == start + end
             hz_values == gap_fill(st.hz_values, i, midpoint_time, prescan_data)
             t == time_axis(i, midpoint_time, st)
         IN  EmitLoop(y, i + 1, bounds, prescan_data,
                 [hz_values     |-> hz_values,
                  reset_time    |-> t.reset_time,
                  prev_end_time |-> 2 * end,
                  relative_time |-> Append(st.relative_time, t.relative_time),
                  results       |-> Append(st.results,
                      [sounding          |-> y.name,
                       time_mark         |-> t.excel_mark,
                       relative_time_sec |-> Round3(t.relative_time, y.sr),
                       hz                |-> hz_values[i + 1]])])

process_audio_file(y) ==
    LET prescan_data == prescan_300_marks(y)
        bounds == segment_boundaries(y.len, TIME_MARKS)
        raw == EstimateMarks(y, TIME_MARKS)
        smoothed == smooth_hz_values(raw)
        st == EmitLoop(y, 0, bounds, prescan_data,
                  [hz_values |-> smoothed, reset_time |-> 0,
                   prev_end_time |-> 0, relative_time |-> <<>>,
                   results |-> <<>>])
    IN  [prescan_data  |-> prescan_data,
         raw           |-> raw,
         smoothed      |-> smoothed,
         bounds        |-> bounds,
         relative_time |-> st.relative_time,
         results       |-> st.results]

---------------------------------------------------------------------------
(* Bounds of the explored inputs *)

MaxLen == 45
MaxCount == 6
MaxSegLen == 1
MaxSmoothLen == 4
MaxPoints == 3
MaxTime == 3
MaxRun == 3
MaxFiles == 3

(* Frequencies the primitive is made to answer (multiples of 4 milli-Hz) *)
LowHz == Hz(60)
FloorHz == Hz(MIN_VALID_HZ)
FineHz == Hz(120) + 124
VoicedHz == Hz(140)
CeilHz == Hz(MAX_VALID_HZ)
HighHz == Hz(400)

NaN == Undetermined

YinOutcomes ==
    { Raises,
      Track(<<>>),
      Track(<<NaN, Concrete(LowHz)>>),
      Track(<<Concrete(FineHz)>>),
      Track(<<Concrete(CeilHz)>>),
      Track(<<Concrete(HighHz), Concrete(VoicedHz)>>),
      Track(<<Concrete(HighHz)>>) }

SubOutcomes ==
    { Raises,
      Track(<<NaN>>),
      Track(<<Concrete(LowHz)>>),
      Track(<<Concrete(FineHz), NaN>>),
      Track(<<Concrete(HighHz)>>) }

(* What the primitive answers on one coarse segment *)
Voiced(v) ==
    [whole |-> Track(<<Concrete(v)>>),
     subs  |-> [j \in 1..SUB_WINDOWS |-> Track(<<Concrete(v)>>)]]

Silent ==
    [whole |-> Track(<<>>),
     subs  |-> [j \in 1..SUB_WINDOWS |-> Track(<<NaN>>)]]

Broken ==
    [whole |-> Raises,
     subs  |-> [j \in 1..SUB_WINDOWS |-> Raises]]

Noisy(v) ==
    [whole |-> Track(<<Concrete(HighHz)>>),
     subs  |-> <<Track(<<Concrete(v)>>), Raises, Track(<<Concrete(HighHz)>>),
                 Track(<<Concrete(v), Concrete(v + 8)>>), Track(<<NaN>>)>>]

BaseProfiles == {Voiced(VoicedHz), Voiced(LowHz), Voiced(FloorHz), Silent}
AltProfiles ==
    {Voiced(LowHz), Voiced(FineHz), Voiced(VoicedHz), Noisy(FineHz), Broken}

(* Coarse marks: profile b everywhere but a run of w marks after the p-th *)
MarksWithRun(b, a, p, w) ==
    [k \in 1..TIME_MARKS |-> IF p < k /\ k <= p + w THEN a ELSE b]

MarkFamily ==
    { MarksWithRun(b, a, p, w) :
        b \in BaseProfiles, a \in AltProfiles,
        p \in 0..(TIME_MARKS - 1), w \in 1..MaxRun }

FewMarks ==
    { MarksWithRun(Voiced(LowHz), Voiced(LowHz), 0, 1),
      MarksWithRun(Voiced(VoicedHz), Voiced(LowHz), 8, MaxRun) }

(* Reference spans that answer something; spans 0 and 14 are equally far   *)
(* from the midpoint of the first coarse mark when len = 2 * 300.          *)
RefSpots == {0, 14, 150, PRE_SCAN_MARKS - 1}
RefTracks ==
    { Track(<<NaN>>), Track(<<Concrete(LowHz)>>), Track(<<Concrete(FloorHz)>>),
      Track(<<Concrete(VoicedHz + 4)>>), Track(<<Concrete(HighHz)>>) }

RefFamily ==
    { << <<k1, t1>>, <<k2, t2>> >> :
        k1 \in RefSpots, k2 \in RefSpots, t1 \in RefTracks, t2 \in RefTracks }

FewRefs ==
    { <<>>,
      << <<150, Track(<<Concrete(VoicedHz + 4)>>)>> >>,
      << <<0, Track(<<Concrete(HighHz)>>)>>,
         <<PRE_SCAN_MARKS - 1, Track(<<Concrete(LowHz)>>)>> >> }

Waveform(len, sr, marks, ref) ==
    [name |-> "a.wav", len |-> len, sr |-> sr, marks |-> marks, ref |-> ref]

FileInputs ==
    { Waveform(2 * PRE_SCAN_MARKS, 100, m, r) : m \in MarkFamily, r \in FewRefs }
    \cup
    { Waveform(l, 100, m, r) :
        l \in {7, 2 * PRE_SCAN_MARKS}, m \in FewMarks,
        r \in {x \in RefFamily : x[1][1] < x[2][1]} }
    \cup
    { Waveform(l, sr, m, r) :
        l \in (0..MaxLen) \cup {2 * PRE_SCAN_MARKS, 6007},
        sr \in {1, 8, 16000}, m \in FewMarks, r \in FewRefs }

FileInputsMain == { y \in FileInputs : y.ref = <<>> }

---------------------------------------------------------------------------
(* State machine *)

NotWritten == [written |-> FALSE, rows |-> <<>>]

Init ==
    /\ pc = "idle"
    /\ args = <<>>
    /\ ret = <<>>
    /\ files = <<>>
    /\ index = 0
    /\ all_results = <<>>
    /\ output = NotWritten

(* One call of the partition loop *)
PartitionCall ==
    /\ pc = "idle"
    /\ \E total_len \in (0..MaxLen) \cup
                        {PRE_SCAN_MARKS - 1, PRE_SCAN_MARKS, 2 * PRE_SCAN_MARKS + 7},
          count \in (1..MaxCount) \cup
                    {SUB_WINDOWS, TIME_MARKS_main, TIME_MARKS, PRE_SCAN_MARKS} :
        /\ args' = [total_len |-> total_len, count |-> count]
        /\ ret' = segment_boundaries(total_len, count)
    /\ pc' = "segment_boundaries"
    /\ UNCHANGED <<files, index, all_results, output>>

RobustCall ==
    /\ pc = "idle"
    /\ \E len \in (0..MaxSegLen) \cup {SUB_WINDOWS, SUB_WINDOWS + 2},
          whole \in YinOutcomes,
          subs \in [1..SUB_WINDOWS -> SubOutcomes] :
        /\ args' = [len |-> len, whole |-> whole, subs |-> subs]
        /\ ret' = robust_pitch_detection(args')
    /\ pc' = "robust_pitch_detection"
    /\ UNCHANGED <<files, index, all_results, output>>

SmoothVals == {LowHz, FineHz, VoicedHz, VoicedHz + 10, CeilHz}

SmoothCall ==
    /\ pc = "idle"
    /\ \E n \in 0..MaxSmoothLen :
        \E hz_list \in [1..n -> SmoothVals] :
            /\ args' = hz_list
            /\ ret' = smooth_hz_values(hz_list)
    /\ pc' = "smooth_hz_values"
    /\ UNCHANGED <<files, index, all_results, output>>

PointHz == {Undetermined, Concrete(LowHz), Concrete(FloorHz), Concrete(VoicedHz)}

(* Reference points as the scan leaves them: times never decrease *)
PrescanLists ==
    UNION { { d \in [1..n -> [time : 0..MaxTime, hz : PointHz]] :
                \A k \in 1..(n - 1) : d[k].time <= d[k + 1].time } :
            n \in 0..MaxPoints }

NearestCall ==
    /\ pc = "idle"
    /\ \E prescan_data \in PrescanLists, target_time \in 0..(MaxTime + 1) :
        /\ args' = [target_time |-> target_time, prescan_data |-> prescan_data]
        /\ ret' = find_nearest_valid_hz(target_time, prescan_data)
    /\ pc' = "find_nearest_valid_hz"
    /\ UNCHANGED <<files, index, all_results, output>>

ProcessCall ==
    /\ pc = "idle"
    /\ \E y \in FileInputs :
        /\ args' = y
        /\ ret' = process_audio_file(y)
    /\ pc' = "process_audio_file"
    /\ UNCHANGED <<files, index, all_results, output>>

ProcessCallMain ==
    /\ pc = "idle"
    /\ \E y \in FileInputsMain :
        /\ args' = y
        /\ ret' = process_audio_file_main(y)
    /\ pc' = "process_audio_file_main"
    /\ UNCHANGED <<files, index, all_results, output>>

SpecSeg == Init /\ [][PartitionCall]_vars
SpecRobust == Init /\ [][RobustCall]_vars
SpecSmooth == Init /\ [][SmoothCall]_vars
SpecNearest == Init /\ [][NearestCall]_vars
NextFile == ProcessCall \/ ProcessCallMain
SpecFile == Init /\ [][NextFile]_vars

---------------------------------------------------------------------------
(* main(): the batch run over the data folder *)

Lower(suffix) == IF suffix = ".WAV" THEN ".wav" ELSE suffix

IsWav(f) == Lower(f.suffix) = ".wav"

DirEntries ==
    { [name |-> "a", suffix |-> ".wav", decodable |-> TRUE,
       y |-> [Waveform(2 * PRE_SCAN_MARKS, 100,
                       MarksWithRun(Voiced(VoicedHz), Voiced(LowHz), 8, 1),
                       <<>>) EXCEPT !.name = "a.wav"]],
      [name |-> "B", suffix |-> ".WAV", decodable |-> TRUE,
       y |-> [Waveform(7, 8, MarksWithRun(Voiced(LowHz), Broken, 0, 1),
                       << <<PRE_SCAN_MARKS - 1, Track(<<Concrete(VoicedHz)>>)>> >>)
              EXCEPT !.name = "B.WAV"]],
      [name |-> "bad", suffix |-> ".wav", decodable |-> FALSE, y |-> <<>>],
      [name |-> "notes", suffix |-> ".txt", decodable |-> FALSE, y |-> <<>>] }

(* Listings of the folder: no name twice *)
DirLists ==
    UNION { { d \in [1..n -> DirEntries] :
                \A j, k \in 1..n : j # k => d[j].name # d[k].name } :
            n \in 0..MaxFiles }

ProcessResults(variant, y) ==
    IF variant = "main2" THEN process_audio_file(y).results
    ELSE process_audio_file_main(y).results

MainStart ==
    /\ pc = "idle"
    /\ \E variant \in {"main", "main2"}, exists \in BOOLEAN, entries \in DirLists :
        /\ exists \/ entries = <<>>
        /\ args' = [variant |-> variant, exists |-> exists, entries |-> entries]
        /\ IF ~exists
           THEN /\ pc' = "done"
                /\ UNCHANGED <<files, index, all_results>>
           ELSE /\ all_results' = <<>>
                /\ files' = SelectSeq(entries, IsWav)
                /\ index' = 0
                /\ pc' = "loop"
    /\ UNCHANGED <<ret, output>>

(* One turn of the loop.  librosa.load raising on a file that does not     *)
(* decode is caught nowhere: it leaves process_audio_file and main.        *)
MainFile ==
    /\ pc = "loop"
    /\ index < Len(files)
    /\ LET f == files[index + 1]
       IN  IF ~f.decodable
           THEN /\ pc' = "crashed"
                /\ UNCHANGED <<index, all_results>>
           ELSE /\ all_results' = all_results \o ProcessResults(args.variant, f.y)
                /\ index' = index + 1
                /\ pc' = "loop"
    /\ UNCHANGED <<args, ret, files, output>>

MainWrite ==
    /\ pc = "loop"
    /\ index = Len(files)
    /\ output' = [written |-> TRUE, rows |-> all_results]
    /\ pc' = "done"
    /\ UNCHANGED <<args, ret, files, index, all_results>>

NextMain == MainStart \/ MainFile \/ MainWrite
SpecMain == Init /\ [][NextMain]_vars

Next ==
    \/ PartitionCall
    \/ RobustCall
    \/ SmoothCall
    \/ NearestCall
    \/ ProcessCall
    \/ ProcessCallMain
    \/ MainStart
    \/ MainFile
    \/ MainWrite

Spec == Init /\ [][Next]_vars

---------------------------------------------------------------------------
(* Properties.  Helpers shared by the statements below. *)

(* r is v rounded to two decimals *)
IsRounded2(r, v) == r % 10 = 0 /\ Abs(r - v) <= 5

ValidIdx(points) ==
    { j \in 1..Len(points) :
        points[j].hz.det /\ points[j].hz.hz >= Hz(MIN_VALID_HZ) }

(* Of the points with index in valid, points[j] is the nearest to t, the   *)
(* first one of a tie *)
NearestFirst(points, valid, t, j) ==
    /\ j \in valid
    /\ \A k \in valid :
        /\ Abs(points[j].time - t) <= Abs(points[k].time - t)
        /\ k < j => Abs(points[k].time - t) > Abs(points[j].time - t)

(* The primitive's result on a span is undetermined or at the ceiling *)
Untrusted(len, answer) ==
    LET d == detect_pitch(yin(len, answer))
    IN  ~d.det \/ d.hz >= Hz(MAX_VALID_HZ)

SubLen(segment, j) ==
    Span(j - 1, segment.len, SUB_WINDOWS).end
        - Span(j - 1, segment.len, SUB_WINDOWS).start

(* C2: robust_pitch_detection returns a concrete number in                 *)
(* [0, MAX_VALID_HZ] whatever the primitive answers (a frequency, nothing, *)
(* a raised failure) on the segment and on its 5 sub-windows, the segment  *)
(* possibly empty; it returns exactly MAX_VALID_HZ when every answer is    *)
(* undetermined or >= MAX_VALID_HZ.                                        *)
C2_RobustConcrete ==
    pc = "robust_pitch_detection" =>
        /\ ret.det
        /\ 0 <= ret.hz /\ ret.hz <= Hz(MAX_VALID_HZ)
        /\ (/\ Untrusted(args.len, args.whole)
            /\ \A j \in 1..SUB_WINDOWS : Untrusted(SubLen(args, j), args.subs[j]))
              => ret.hz = Hz(MAX_VALID_HZ)

C2_Witness ==
    /\ pc = "robust_pitch_detection"
    /\ args.len = 0
    /\ args.whole = Raises
    /\ \A j \in 1..SUB_WINDOWS : args.subs[j] \in {Raises, Track(<<NaN>>)}
    /\ \E j \in 1..SUB_WINDOWS : args.subs[j] = Raises
    /\ ret = Concrete(Hz(MAX_VALID_HZ))

(* C3: for every length L >= 0 and count N >= 1 the partition rule yields  *)
(* exactly N spans, the first starting at 0, each starting where the       *)
(* previous one ends, the last ending at L, none of negative width, and    *)
(* none empty when L >= N.                                                 *)
C3_PartitionTiles ==
    pc = "segment_boundaries" =>
        LET L == args.total_len
            N == args.count
        IN  /\ Len(ret) = N
            /\ ret[1].start = 0
            /\ \A k \in 2..N : ret[k].start = ret[k - 1].end
            /\ ret[N].end = L
            /\ \A k \in 1..N : ret[k].start <= ret[k].end
            /\ L >= N => \A k \in 1..N : ret[k].start < ret[k].end

C3_Witness ==
    /\ pc = "segment_boundaries"
    /\ args.count = PRE_SCAN_MARKS
    /\ args.total_len = 2 * PRE_SCAN_MARKS + 7
    /\ ret[PRE_SCAN_MARKS].end - ret[PRE_SCAN_MARKS].start = 9
    /\ ret[1].end - ret[1].start = 2

IsConstant(s) == \A k \in 1..Len(s) : s[k] = s[1]

(* C6 as stated: smooth_hz_values keeps the length of every non-empty      *)
(* list, and returns a list of all-equal values unchanged.                 *)
C6_ConstantUnchanged ==
    (pc = "smooth_hz_values" /\ Len(args) >= 1) =>
        /\ Len(ret) = Len(args)
        /\ IsConstant(args) => ret = args

(* C6 amended: smooth_hz_values keeps the length of every non-empty list,  *)
(* and of a list of all-equal values it returns the list of that value     *)
(* rounded to two decimals: the same list when the value has at most two   *)
(* decimals.                                                               *)
C6_ConstantRounded ==
    (pc = "smooth_hz_values" /\ Len(args) >= 1) =>
        /\ Len(ret) = Len(args)
        /\ IsConstant(args) =>
            /\ \A k \in 1..Len(ret) : IsRounded2(ret[k], args[1])
            /\ args[1] % 10 = 0 => ret = args

C6_Witness ==
    /\ pc = "smooth_hz_values"
    /\ args = <<FineHz, FineHz, FineHz>>
    /\ ret = <<Hz(120) + 120, Hz(120) + 120, Hz(120) + 120>>

(* C9: find_nearest_valid_hz returns MIN_VALID_HZ when no reference point  *)
(* has a concrete Hz >= MIN_VALID_HZ; otherwise the Hz of the valid point  *)
(* nearest in time to the target, the earliest in scan order among equally *)
(* near ones; never a point that is undetermined or below MIN_VALID_HZ.    *)
C9_NearestValid ==
    pc = "find_nearest_valid_hz" =>
        LET points == args.prescan_data
            valid == ValidIdx(points)
        IN  IF valid = {} THEN ret = Hz(MIN_VALID_HZ)
            ELSE \E j \in valid :
                    /\ NearestFirst(points, valid, args.target_time, j)
                    /\ ret = points[j].hz.hz

C9_Witness ==
    /\ pc = "find_nearest_valid_hz"
    /\ Len(args.prescan_data) = 3
    /\ args.prescan_data[1] = [time |-> 0, hz |-> Concrete(VoicedHz)]
    /\ args.prescan_data[2] = [time |-> 1, hz |-> Concrete(LowHz)]
    /\ args.prescan_data[3] = [time |-> 2, hz |-> Concrete(FloorHz)]
    /\ args.target_time = 1
    /\ ret = VoicedHz

---------------------------------------------------------------------------
(* Properties of process_audio_file and main *)

Marks == 1..TIME_MARKS

(* The reference scan of the file being processed *)
RefPoints == ret.prescan_data

(* Numerator of the midpoint time of mark k *)
Midpoint(k) == ret.bounds[k].start + ret.bounds[k].end

(* hz is what gap filling writes for mark k *)
IsReplacement(hz, k) ==
    LET valid == ValidIdx(RefPoints)
    IN  IF valid = {} THEN hz = Hz(MIN_VALID_HZ)
        ELSE \E j \in valid :
                /\ NearestFirst(RefPoints, valid, Midpoint(k), j)
                /\ IsRounded2(hz, RefPoints[j].hz.hz)

(* C1: in main2.process_audio_file every emitted hz lies in                *)
(* [0, MAX_VALID_HZ] and is >= MIN_VALID_HZ (the floor included), also     *)
(* when it was taken from the reference scan.                              *)
C1_EmittedHzBounded ==
    pc = "process_audio_file" =>
        \A k \in Marks :
            /\ 0 <= ret.results[k].hz
            /\ ret.results[k].hz <= Hz(MAX_VALID_HZ)
            /\ ret.results[k].hz >= Hz(MIN_VALID_HZ)

(* C5 as stated: a mark whose raw estimate is below MIN_VALID_HZ, the      *)
(* reference scan holding a valid point, is emitted with the Hz of the     *)
(* valid reference point nearest to its midpoint (rounded to 2 decimals),  *)
(* which is neither the raw value nor the floor.                           *)
C5_RawLowReplaced ==
    pc = "process_audio_file" =>
        \A k \in Marks :
            (ret.raw[k] < Hz(MIN_VALID_HZ) /\ ValidIdx(RefPoints) # {}) =>
                /\ IsReplacement(ret.results[k].hz, k)
                /\ ret.results[k].hz # ret.raw[k]
                /\ ret.results[k].hz # Hz(MIN_VALID_HZ)

(* C5 amended: a mark whose smoothed Hz is below MIN_VALID_HZ, the         *)
(* reference scan holding a valid point, is emitted with the Hz of the     *)
(* valid reference point nearest to its midpoint (the earliest of equally  *)
(* near ones), rounded to 2 decimals, which is >= MIN_VALID_HZ.            *)
C5_SmoothedLowReplaced ==
    pc = "process_audio_file" =>
        \A k \in Marks :
            (ret.smoothed[k] < Hz(MIN_VALID_HZ) /\ ValidIdx(RefPoints) # {}) =>
                /\ IsReplacement(ret.results[k].hz, k)
                /\ ret.results[k].hz >= Hz(MIN_VALID_HZ)

C5_Witness ==
    /\ pc = "process_audio_file"
    /\ \E k \in Marks :
        /\ ret.raw[k] = LowHz
        /\ ret.smoothed[k] < Hz(MIN_VALID_HZ)
        /\ ret.results[k].hz = VoicedHz
    /\ \E j \in 1..PRE_SCAN_MARKS : RefPoints[j].hz = Concrete(VoicedHz + 4)
    /\ \E j \in 1..PRE_SCAN_MARKS : RefPoints[j].hz = Concrete(LowHz)

(* C7: a processed file yields exactly TIME_MARKS results in mark order,   *)
(* with time_mark 1..10 in main.py and 1..10 followed by 1..10 in main2.py *)
(* (20 marks); every time_mark is a positive integer.                      *)
C7_DenseMarks ==
    /\ pc = "process_audio_file" =>
        /\ Len(ret.results) = TIME_MARKS
        /\ \A k \in 1..10 : ret.results[k].time_mark = k
        /\ \A k \in 11..20 : ret.results[k].time_mark = k - 10
    /\ pc = "process_audio_file_main" =>
        /\ Len(ret.results) = TIME_MARKS_main
        /\ \A k \in 1..10 : ret.results[k].time_mark = k

C7_Witness ==
    /\ pc = "process_audio_file"
    /\ args.len = 6007
    /\ ret.results[10].time_mark = 10
    /\ ret.results[11].time_mark = 1
    /\ ret.results[20].time_mark = 10

(* C8: in main2.py, for every waveform length, the relative time of marks  *)
(* 0..9 is the midpoint of their segment and that of every mark i >= 10 is *)
(* its midpoint minus the end time of mark 9's segment; so each half is    *)
(* non-decreasing, the second half is non-negative and starts at half the  *)
(* duration of mark 10's segment.  (Times over the denominator 2 * sr; the *)
(* emitted milliseconds are non-decreasing and non-negative too.)          *)
C8_ResetTimes ==
    pc = "process_audio_file" =>
        LET rel == ret.relative_time
            b == ret.bounds
            ms == [k \in Marks |-> ret.results[k].relative_time_sec]
        IN  /\ Len(rel) = TIME_MARKS
            /\ \A k \in 1..10 : rel[k] = b[k].start + b[k].end
            /\ \A k \in 11..20 : rel[k] = b[k].start + b[k].end - 2 * b[10].end
            /\ \A k \in (1..9) \cup (11..19) :
                    rel[k] <= rel[k + 1] /\ ms[k] <= ms[k + 1]
            /\ \A k \in 11..20 : rel[k] >= 0 /\ ms[k] >= 0
            /\ rel[11] = b[11].end - b[11].start

C8_Witness ==
    /\ pc = "process_audio_file"
    /\ args.len = 6007
    /\ args.sr = 8
    /\ ret.relative_time[10] = 2 * 300 * 9 + 300
    /\ ret.relative_time[11] = 300
    /\ ret.relative_time[20] = (5700 + 6007) - 2 * 3000
    /\ ret.results[11].relative_time_sec = 18750

(* The smoothed value of mark k is the mean of the raw values of k and its *)
(* neighbours, rounded to 2 decimals *)
IsSmoothedFromRaw(k) ==
    LET lo == IF k = 1 THEN 1 ELSE k - 1
        hi == IF k = TIME_MARKS THEN TIME_MARKS ELSE k + 1
        n == hi - lo + 1
        sum == SumSeq(SubSeq(ret.raw, lo, hi))
    IN  /\ ret.smoothed[k] % 10 = 0
        /\ Abs(n * ret.smoothed[k] - sum) <= 5 * n

(* C10: in main2.py smoothing runs once over the raw per-file sequence,    *)
(* before any gap filling; gap filling replaces only the marks whose       *)
(* smoothed Hz is below MIN_VALID_HZ and every other mark is emitted with  *)
(* its smoothed value, whatever was written for its neighbours.            *)
C10_SmoothThenFill ==
    pc = "process_audio_file" =>
        \A k \in Marks :
            /\ IsSmoothedFromRaw(k)
            /\ ret.smoothed[k] >= Hz(MIN_VALID_HZ) =>
                    ret.results[k].hz = ret.smoothed[k]
            /\ ret.smoothed[k] < Hz(MIN_VALID_HZ) =>
                    IsReplacement(ret.results[k].hz, k)

C10_Witness ==
    /\ pc = "process_audio_file"
    /\ \E k \in 1..(TIME_MARKS - 1) :
        /\ ret.smoothed[k] < Hz(MIN_VALID_HZ)
        /\ ret.results[k].hz > Hz(MIN_VALID_HZ)
        /\ ret.smoothed[k + 1] >= Hz(MIN_VALID_HZ)
        /\ ret.smoothed[k + 1] < ret.results[k].hz
        /\ ret.results[k + 1].hz = ret.smoothed[k + 1]

(* What the batch should have written: the results of every file of the    *)
(* listing that decodes, in order *)
RECURSIVE ExpectedRows(_, _)
ExpectedRows(variant, fs) ==
    IF Len(fs) = 0 THEN <<>>
    ELSE (IF Head(fs).decodable THEN ProcessResults(variant, Head(fs).y) ELSE <<>>)
         \o ExpectedRows(variant, Tail(fs))

(* C4: when a file of the batch does not decode it is skipped: the run     *)
(* ends having processed the later files and written the results of every  *)
(* file that decodes.                                                      *)
C4_DecodeFailureSkipped ==
    (pc \in {"done", "crashed"} /\ args.exists) =>
        /\ pc = "done"
        /\ output.written
        /\ output.rows = ExpectedRows(args.variant, files)

====
